---- MODULE Spec2Model ----
(***************************************************************************)
(* Autonomic-AI: the Gateway / Auditor / Refiner / Evaluator pipeline over *)
(* the Firestore collections agents, pointers, chats and the three Pub/Sub *)
(* topics.  Every handler is translated from its source.                   *)
(***************************************************************************)
EXTENDS Integers, Sequences, FiniteSets, Bags, TLC

(* ---------------------------------------------------------------------- *)
(* Bounds of the model                                                     *)
(* ---------------------------------------------------------------------- *)
\* number of /chat requests served in one run
MaxTurns == 2

\* the chat ids the callers use
Chats == {"c1", "c2"}

\* the largest refinement_depth of a job delivered from outside the pipeline
MaxJobDepth == 3

\* the number of messages the bus delivers a second time in one run
MaxRedeliveries == 1

\* the longest user input and response text of a generation call, in characters
MaxChars == 9

\* the largest token count the API reports for a generation call
MaxTokens == 12

(* ---------------------------------------------------------------------- *)
(* Program constants                                                       *)
(* ---------------------------------------------------------------------- *)
\* perform_seed: agent_id = "carsalesman101"
Family == "carsalesman101"

\* perform_seed: version = 1
SeedVersion == 1

\* payload.get("refinement_depth", 0): the value used when the key is absent
DefaultDepth == 0

\* refine_agent: if refinement_depth >= 2
RefinerDepthLimit == 2

\* handle_failure: if depth < 2
EvaluatorDepthLimit == 2

\* generate_response: INPUT_PRICE_PER_1M = 0.30 dollars, in tenths of a
\* micro-dollar per token
InputPrice == 3

\* generate_response: OUTPUT_PRICE_PER_1M = 2.50 dollars, in tenths of a
\* micro-dollar per token
OutputPrice == 25

\* generate_response: 1 token is about 4 chars
CharsPerToken == 4

\* the shortest system prompt a caller passes: "You are a Quality Judge."
MinPromptChars == 24

\* a payload key that is not present (dict.get falls back to its default)
Absent == -1

\* a key the judge left out of its JSON object
Missing == "<missing>"

(* ---------------------------------------------------------------------- *)
(* Document ids.  f"{base_id}_v{new_version}" is the pair <<base, n>>;     *)
(* the seed document's id is the bare family name, the pair <<base, 0>>.   *)
(* ---------------------------------------------------------------------- *)
SeedId == <<Family, 0>>

\* new_agent_id = f"{base_id}_v{new_version}"
VersionedId(base, n) == <<base, n>>

\* base_id = agent_id.split("_v")[0]
BaseOf(id) == id[1]

\* the text of the id: the family name is the id of the seed document
FamilyDocId(family) == <<family, 0>>

(* ---------------------------------------------------------------------- *)
(* Reasons are pairs <<prefix, text>>: f"{prefix}{text}"                   *)
(* ---------------------------------------------------------------------- *)
NoPrefix == ""

\* the reason of a gate-1 failure reported under the prefix of gate 2
PerfPrefix_compliance == "Compliance Check Failed: "

PerfPrefix == "Performance Check Failed: "
CompPrefix == "Compliance Check Failed: "
JudgeReason == <<NoPrefix, "judge reason">>
EmptyReason == <<NoPrefix, "LLM evaluation failed - empty response">>
InvalidReason == <<NoPrefix, "LLM evaluation failed - invalid JSON output.">>
UnknownError == <<NoPrefix, "Unknown error">>
UnknownAuditFailure == <<NoPrefix, "Unknown Audit Failure">>

(* ---------------------------------------------------------------------- *)
(* The seeded documents                                                    *)
(* ---------------------------------------------------------------------- *)
MutableKeys == {"persona", "style_guide", "objectives", "operational_guidelines"}

SeedPrompt == [k \in MutableKeys |-> "seed"]

SeedDoc ==
  [ agent_id |-> SeedId,
    version |-> SeedVersion,
    deployment_state |-> "ACTIVE",
    prompt |-> SeedPrompt,
    upgrade_config |-> "seed rules",
    resources |-> "seed resources",
    config |-> "seed model settings" ]

SeedPointer ==
  [ active_agent_doc_ref |-> SeedId,
    current_version |-> SeedVersion,
    reason |-> <<"Initial Seed", <<NoPrefix, "">>>> ]

NoChat == [exists |-> FALSE, history |-> <<>>, audit_result |-> <<>>]

(* ---------------------------------------------------------------------- *)
(* State                                                                   *)
(* ---------------------------------------------------------------------- *)
VARIABLES
  agents,     \* collection "agents": document id -> AgentConfig
  pointers,   \* collection "pointers": family -> VersionPointer
  chats,      \* collection "chats": chat id -> ChatSession
  auditQ,     \* topic autonomic-audit-jobs (bag of AuditJob)
  refineQ,    \* topic autonomic-refine-jobs (bag of RefineJob)
  evalQ,      \* topic autonomic-eval-jobs (bag of EvaluateJob)
  promoting,  \* run_evaluation calls between the pointer write and the flag write
  turns,      \* number of /chat requests served
  redelivered,\* number of messages the bus has delivered a second time
  last        \* what the last handler step did: its job, what it published, its alert

vars == <<agents, pointers, chats, auditQ, refineQ, evalQ, promoting, turns, redelivered, last>>

\* Jobs carry three fields that are not in the payloads: made, the number of
\* candidates the chain has persisted; chain_input, the user_input of the
\* AuditJob the chain started from (Absent for a job delivered from outside);
\* delivery_attempt, 2 for a copy the bus delivered again.
NoJob == [chat_id |-> "", refinement_depth |-> Absent, made |-> 0, delivery_attempt |-> 1]
NoResponse == [response |-> Absent, agent_version |-> Absent]
NoAlert == [kind |-> "none", audit_reason |-> <<NoPrefix, "">>, evaluator_reason |-> <<NoPrefix, "">>]

\* gates: the outputs of the model calls the handler made (the judge of the
\* Auditor and of the Evaluator's gates, the rewrite of the Refiner), in the
\* order of the calls, <<>> when it made none
\* the call of a handler run that raises: a store read, the generation call
\* or a store write; NoFault when every call returns
NoFault == "none"
Faults == {"read", "generate", "write"}
FailureOutcomes == {"store_read_failed", "generation_failed", "store_write_failed"}

\* what the subscriber wrapper has done with a message
NoSettlement == [acks |-> 0, nacks |-> 0]

\* wrapper with message.ack() ahead of the callback
wrapper_ack_first(decodes, returns) ==
  IF ~decodes THEN [acks |-> 0, nacks |-> 1]
  ELSE IF ~returns THEN [acks |-> 1, nacks |-> 1]
  ELSE [acks |-> 1, nacks |-> 0]

\* wrapper (pubsub.py lines 37-51): json.loads and the callback run inside
\* the try, message.ack() follows the callback, any exception leads to
\* message.nack()
wrapper(decodes, returns) ==
  IF decodes /\ returns THEN [acks |-> 1, nacks |-> 0] ELSE [acks |-> 0, nacks |-> 1]

\* the steps in which a handler returns to the wrapper: every outcome of a
\* worker is a normal return, except that the promotion returns after its
\* second write
WorkerOps == {"audit", "refine", "evaluate"}

\* handlers without their except clause: a failed call reaches the wrapper
Settled_failures_raise(op, outcome) ==
  IF op \in WorkerOps /\ outcome # "pointer_written"
    THEN wrapper(TRUE, outcome \notin FailureOutcomes)
    ELSE NoSettlement

\* what the wrapper does when the handler step is over: the handlers catch
\* every exception of their store and generation calls and return
Settled(op, outcome) ==
  IF op \in WorkerOps /\ outcome # "pointer_written" THEN wrapper(TRUE, TRUE)
  ELSE NoSettlement

\* response: the body a request returned, NoResponse for a failed request
\* and for the workers' steps; settled: the acks and nacks of the wrapper
\* around the handler
Step(op, outcome, job, published, alerts) ==
  [ op |-> op, outcome |-> outcome, job |-> job, published |-> published,
    alerts |-> alerts, gates |-> <<>>, response |-> NoResponse,
    settled |-> Settled(op, outcome) ]

Init ==
  /\ agents = (SeedId :> SeedDoc)
  /\ pointers = (Family :> SeedPointer)
  /\ chats = [c \in Chats |-> NoChat]
  /\ auditQ = EmptyBag
  /\ refineQ = EmptyBag
  /\ evalQ = EmptyBag
  /\ promoting = {}
  /\ turns = 0
  /\ redelivered = 0
  /\ last = Step("seed", "ok", NoJob, <<>>, <<>>)

(* ---------------------------------------------------------------------- *)
(* Config Store accessor (src/core/db.py)                                  *)
(* ---------------------------------------------------------------------- *)
\* get_current_agent_config: does the two-hop read succeed?
ConfigResolves(agent_id) ==
  /\ agent_id \in DOMAIN pointers
  /\ pointers[agent_id].active_agent_doc_ref \in DOMAIN agents

\* get_current_agent_config: pointer -> active document
get_current_agent_config(agent_id) ==
  agents[pointers[agent_id].active_agent_doc_ref]

\* firestore.ArrayUnion: each element that the array does not hold already
\* is appended, in order, in one atomic write
RECURSIVE ArrayUnion(_, _)
ArrayUnion(array, elements) ==
  IF elements = <<>> THEN array
  ELSE LET e == Head(elements)
       IN ArrayUnion(IF \E i \in DOMAIN array : array[i] = e THEN array
                                                              ELSE Append(array, e),
                     Tail(elements))

\* the two history entries of one turn (lines 40-52)
TurnEntries(user_msg, bot_msg, ts) ==
  << [role |-> "user", content |-> user_msg, timestamp |-> ts],
     [role |-> "model", content |-> bot_msg, timestamp |-> ts] >>

\* save_chat_log writing history as a plain list: merge=True replaces the array
save_chat_log_overwrite(chat, user_msg, bot_msg, ts) ==
  [chat EXCEPT
     !.exists = TRUE,
     !.history = TurnEntries(user_msg, bot_msg, ts)]

\* save_chat_log: set(merge=True) with ArrayUnion of the (user, model) pair
save_chat_log(chat, user_msg, bot_msg, ts) ==
  [chat EXCEPT
     !.exists = TRUE,
     !.history = ArrayUnion(@, TurnEntries(user_msg, bot_msg, ts))]

\* str.upper() on the verdict strings the judge can return
Upper(v) ==
  CASE v \in {"FAIL", "fail", "Fail"} -> "FAIL"
    [] v \in {"PASS", "pass", "Pass"} -> "PASS"
    [] OTHER -> v

\* should_trigger_audit without the FAIL branch
should_trigger_audit_always(chat) == TRUE

\* should_trigger_audit
should_trigger_audit(chat) ==
  IF ~chat.exists THEN TRUE
  ELSE IF chat.audit_result = <<>> THEN TRUE
  ELSE IF Upper(chat.audit_result[1].verdict) = "PASS" THEN TRUE
  ELSE IF Upper(chat.audit_result[1].verdict) = "FAIL" THEN FALSE
  ELSE TRUE

(* ---------------------------------------------------------------------- *)
(* Gateway (src/services/gateway_service.py)                               *)
(* ---------------------------------------------------------------------- *)
\* the caller's message of the n-th request
UserMessage(n) == n

\* the reply generated under a configuration: it is a function of the prompt used
BotText(config) == config.version

AuditJob(chat_id, agent_id, version, user_input, bot_response) ==
  [ chat_id |-> chat_id, agent_id |-> agent_id, agent_version |-> version,
    user_input |-> user_input, bot_response |-> bot_response ]

\* the request body, whether the generation call of the request returns, and
\* whether the publish of its AuditJob succeeds
ChatRequest(chat_id, agent_id, generated, publishes) ==
  [ chat_id |-> chat_id, agent_id |-> agent_id, generated |-> generated,
    publishes |-> publishes,
    refinement_depth |-> Absent, made |-> 0, delivery_attempt |-> 1 ]

\* chat_endpoint failing only when the configuration does not resolve
RequestFails_generation_ignored(agent_id, generated) == ~ConfigResolves(agent_id)

\* the try block raises before save_chat_log (lines 240-287): the
\* configuration does not resolve, or generate_response raises
RequestFails(agent_id, generated) == ~ConfigResolves(agent_id) \/ ~generated

\* the body returned when the publish runs inside the request and its failure
\* fails the request
ChatResponse_publish_first(bot_text, version, publishes) ==
  IF publishes THEN [response |-> bot_text, agent_version |-> version] ELSE NoResponse

\* the body returned (lines 365-372); the publish is a background task that
\* runs after the return, so its result cannot change the body
ChatResponse(bot_text, version, publishes) ==
  [response |-> bot_text, agent_version |-> version]

\* background_tasks.add_task(publish_background_event, ...) (lines 315-319):
\* the job reaches the topic unless the publish raises
BackgroundPublish(topic, jobs, publishes) ==
  IF publishes THEN topic (+) SetToBag({jobs[i] : i \in DOMAIN jobs}) ELSE topic

\* chat_endpoint, one whole request
chat_endpoint(chat_id, agent_id, generated, publishes) ==
  /\ turns < MaxTurns
  /\ turns' = turns + 1
  /\ UNCHANGED redelivered
  /\ IF RequestFails(agent_id, generated)
       THEN /\ last' = Step("chat", IF ~ConfigResolves(agent_id) THEN "no_config"
                                                                ELSE "generation_failed",
                            ChatRequest(chat_id, agent_id, generated, publishes), <<>>, <<>>)
            /\ UNCHANGED <<agents, pointers, chats, auditQ, refineQ, evalQ, promoting>>
       ELSE LET agent_config == get_current_agent_config(agent_id)
                user_message == UserMessage(turns + 1)
                bot_text     == BotText(agent_config)
                saved        == save_chat_log(chats[chat_id], user_message, bot_text, turns + 1)
                job          == AuditJob(chat_id, agent_id, agent_config.version,
                                         user_message, bot_text)
                trigger      == should_trigger_audit(saved)
                attempted    == IF trigger THEN <<job>> ELSE <<>>
            IN /\ chats' = [chats EXCEPT ![chat_id] = saved]
               /\ auditQ' = BackgroundPublish(auditQ, attempted, publishes)
               /\ last' = [ Step("chat", "ok",
                                  ChatRequest(chat_id, agent_id, generated, publishes),
                                  IF publishes THEN attempted ELSE <<>>, <<>>)
                             EXCEPT !.response =
                               ChatResponse(bot_text, agent_config.version, publishes) ]
               /\ UNCHANGED <<agents, pointers, refineQ, evalQ, promoting>>

\* the requests of one chat
Gateway == chat_endpoint("c1", Family, TRUE, TRUE)

\* the requests of a second chat of the same family
GatewayOther == chat_endpoint("c2", Family, TRUE, TRUE)

\* an agent_id no pointer exists for
UnknownFamily == "unknown_agent"

\* requests of any agent_id, whose generation call returns or raises and
\* whose publish succeeds or raises
GatewayFaulty ==
  \E agent_id \in {Family, UnknownFamily} : \E generated, publishes \in BOOLEAN :
    chat_endpoint("c1", agent_id, generated, publishes)

\* publish_background_event: the jobs a handler published, added to a topic
Publish(topic, jobs) == topic (+) SetToBag({jobs[i] : i \in DOMAIN jobs})

(* ---------------------------------------------------------------------- *)
(* Auditor (src/services/auditor_worker.py)                                *)
(* ---------------------------------------------------------------------- *)
\* what the judge call can return, after the markdown fences are stripped
JudgeObject(verdict, reason, priority) ==
  [kind |-> "object", verdict |-> verdict, reason |-> reason, priority |-> priority]

AuditorOutputs ==
  { [kind |-> "empty", verdict |-> Missing, reason |-> UnknownError, priority |-> Missing],
    [kind |-> "invalid", verdict |-> Missing, reason |-> UnknownError, priority |-> Missing],
    [kind |-> "nonobject", verdict |-> Missing, reason |-> UnknownError, priority |-> Missing],
    JudgeObject("PASS", JudgeReason, "LOW"),
    JudgeObject("FAIL", JudgeReason, "MEDIUM"),
    JudgeObject("fail", JudgeReason, "MEDIUM"),
    JudgeObject(Missing, <<NoPrefix, Missing>>, Missing) }

\* dict.get(key, default)
GetOr(value, default) == IF value = Missing THEN default ELSE value

\* the audit_result dict built from the judge output (lines 188-216)
ParseAudit(out) ==
  LET parsed == IF out.kind = "empty"
                  THEN [verdict |-> "FAIL", reason |-> EmptyReason, priority |-> "HIGH"]
                ELSE IF out.kind = "invalid"
                  THEN [verdict |-> "FAIL", reason |-> InvalidReason, priority |-> "HIGH"]
                ELSE [verdict |-> out.verdict, reason |-> out.reason, priority |-> out.priority]
  IN [ verdict  |-> GetOr(parsed.verdict, "FAIL"),
       reason   |-> IF parsed.reason[2] = Missing THEN UnknownError ELSE parsed.reason,
       priority |-> GetOr(parsed.priority, "LOW") ]

\* the chat document after update({"audit_result": {...}})
StoreAudit(chat, result) == [chat EXCEPT !.audit_result = <<result>>]

\* refine_payload (lines 262-270): no refinement_depth key
AuditorRefineJob(job, result, history) ==
  [ chat_id |-> job.chat_id, agent_id |-> FamilyDocId(job.agent_id),
    failure_reason |-> result.reason, refinement_depth |-> Absent,
    original_input |-> job.user_input, bad_response |-> job.bot_response,
    full_history |-> history, priority |-> result.priority, made |-> 0,
    chain_input |-> job.user_input,
    delivery_attempt |-> 1 ]

\* escalation whatever the verdict
AuditorEscalation_always(job, result, history) ==
  <<AuditorRefineJob(job, result, history)>>

\* the jobs the Auditor publishes for a stored verdict (lines 258-275)
AuditorEscalation(job, result, history) ==
  IF result.verdict = "FAIL" THEN <<AuditorRefineJob(job, result, history)>> ELSE <<>>

\* evaluate_interaction, one whole AuditJob
evaluate_interaction(job, out, fault) ==
  /\ auditQ' = auditQ (-) SetToBag({job})
  /\ UNCHANGED redelivered
  /\ LET chat == chats[job.chat_id]
         abort(outcome) ==
           /\ last' = Step("audit", outcome, [NoJob EXCEPT !.chat_id = job.chat_id], <<>>, <<>>)
           /\ UNCHANGED <<agents, pointers, chats, refineQ, evalQ, promoting, turns>>
         raised(outcome) ==
           /\ last' = [Step("audit", outcome, [NoJob EXCEPT !.chat_id = job.chat_id],
                             <<>>, <<>>) EXCEPT !.gates = <<out>>]
           /\ UNCHANGED <<agents, pointers, chats, refineQ, evalQ, promoting, turns>>
     IN IF fault = "read" THEN abort("store_read_failed")
        ELSE IF ~chat.exists THEN abort("no_chat")
        ELSE IF ~ConfigResolves(job.agent_id) THEN abort("exception")
        ELSE IF fault = "generate" THEN abort("generation_failed")
        ELSE IF out.kind = "nonobject" THEN raised("exception")
        ELSE IF fault = "write" THEN raised("store_write_failed")
        ELSE LET result    == ParseAudit(out)
                 published == AuditorEscalation(job, result, chat.history)
             IN /\ chats' = [chats EXCEPT ![job.chat_id] = StoreAudit(chat, result)]
                /\ refineQ' = Publish(refineQ, published)
                /\ last' = [Step("audit", "stored", [NoJob EXCEPT !.chat_id = job.chat_id],
                                 published, <<>>) EXCEPT !.gates = <<out>>]
                /\ UNCHANGED <<agents, pointers, evalQ, promoting, turns>>

Auditor ==
  \E job \in BagToSet(auditQ) : \E out \in AuditorOutputs :
    evaluate_interaction(job, out, NoFault)

\* runs of the Auditor in which a store or generation call raises
AuditorFaulty ==
  \E job \in BagToSet(auditQ) : \E out \in AuditorOutputs : \E fault \in Faults :
    evaluate_interaction(job, out, fault)

(* ---------------------------------------------------------------------- *)
(* Refiner (src/services/refiner_worker.py)                                *)
(* ---------------------------------------------------------------------- *)
\* payload.get("refinement_depth", 0)
DepthOf(job) == IF job.refinement_depth = Absent THEN DefaultDepth ELSE job.refinement_depth

\* the guard of refine_agent, off by one
RefinerGuard_late(refinement_depth) == refinement_depth > RefinerDepthLimit

\* refine_agent without its guard
RefinerGuard_never(refinement_depth) == FALSE

\* the guard of refine_agent
RefinerGuard(refinement_depth) == refinement_depth >= RefinerDepthLimit

RewriteA == [k \in {"operational_guidelines"} |-> "rewrite A"]
RewriteX == [k \in {"objectives", "upgrade_config", "resources", "config"} |-> "rewrite X"]
NoFields == [k \in {} |-> ""]

\* what the generator can return for the rewrite: text that is not JSON; a
\* JSON value that dict.update rejects (a number, null); the empty JSON array,
\* which dict.update accepts as no pairs; a JSON object
RewriteOutputs ==
  { [kind |-> "invalid", fields |-> NoFields],
    [kind |-> "nonobject", fields |-> NoFields],
    [kind |-> "array", fields |-> NoFields],
    [kind |-> "object", fields |-> RewriteA],
    [kind |-> "object", fields |-> RewriteX] }

\* dict.update
DictUpdate(d, new) ==
  [k \in (DOMAIN d) \cup (DOMAIN new) |-> IF k \in DOMAIN new THEN new[k] ELSE d[k]]

\* new_version = current_version + 1
NewVersion(agent_data) == agent_data.version + 1

\* new_agent_data with the rewrite spliced into the document, not into its prompt
NewAgentData_top_level(agent_data, new_agent_id, new_mutable_config) ==
  LET over(key, old) == IF key \in DOMAIN new_mutable_config
                          THEN new_mutable_config[key] ELSE old
  IN [ agent_data EXCEPT
         !.version = NewVersion(agent_data),
         !.agent_id = new_agent_id,
         !.deployment_state = "TEST_CANDIDATE",
         !.upgrade_config = over("upgrade_config", @),
         !.resources = over("resources", @),
         !.config = over("config", @) ]

\* new_agent_data (lines 113-124): the clone with the rewrite spliced into prompt
NewAgentData(agent_data, new_agent_id, new_mutable_config) ==
  [ agent_data EXCEPT
      !.version = NewVersion(agent_data),
      !.agent_id = new_agent_id,
      !.deployment_state = "TEST_CANDIDATE",
      !.prompt = DictUpdate(@, new_mutable_config) ]

\* evaluator_payload with the depth counted up by the Refiner
EvaluateJob_depth_counted(job, new_agent_id, base_id, new_version) ==
  [ target_agent_id |-> new_agent_id, original_agent_id |-> base_id,
    chat_id |-> job.chat_id, trigger_reason |-> job.failure_reason,
    refinement_depth |-> DepthOf(job) + 1, version |-> new_version,
    made |-> job.made + 1, chain_input |-> job.chain_input, delivery_attempt |-> 1 ]

\* evaluator_payload (lines 142-149)
EvaluateJob(job, new_agent_id, base_id, new_version) ==
  [ target_agent_id |-> new_agent_id, original_agent_id |-> base_id,
    chat_id |-> job.chat_id, trigger_reason |-> job.failure_reason,
    refinement_depth |-> DepthOf(job), version |-> new_version,
    made |-> job.made + 1, chain_input |-> job.chain_input, delivery_attempt |-> 1 ]

LoopDetected == [NoAlert EXCEPT !.kind = "loop_detected"]

\* refine_agent, one whole RefineJob
refine_agent(job, out, fault) ==
  /\ refineQ' = refineQ (-) SetToBag({job})
  /\ UNCHANGED redelivered
  /\ LET abort(outcome, alerts, calls) ==
           /\ last' = [Step("refine", outcome, job, <<>>, alerts) EXCEPT !.gates = calls]
           /\ UNCHANGED <<agents, pointers, chats, auditQ, evalQ, promoting, turns>>
     IN IF RefinerGuard(DepthOf(job)) THEN abort("loop_detected", <<LoopDetected>>, <<>>)
        ELSE IF fault = "read" THEN abort("store_read_failed", <<>>, <<>>)
        ELSE IF job.agent_id \notin DOMAIN agents THEN abort("no_agent", <<>>, <<>>)
        ELSE IF fault = "generate" THEN abort("generation_failed", <<>>, <<>>)
        ELSE IF out.kind = "invalid" THEN abort("invalid_json", <<>>, <<out>>)
        ELSE IF out.kind = "nonobject" THEN abort("exception", <<>>, <<out>>)
        ELSE IF fault = "write" THEN abort("store_write_failed", <<>>, <<out>>)
        ELSE LET agent_data   == agents[job.agent_id]
                 base_id      == BaseOf(job.agent_id)
                 new_agent_id == VersionedId(base_id, NewVersion(agent_data))
                 new_data     == NewAgentData(agent_data, new_agent_id, out.fields)
                 published    == <<EvaluateJob(job, new_agent_id, base_id, NewVersion(agent_data))>>
             IN /\ agents' = (new_agent_id :> new_data) @@ agents
                /\ evalQ' = Publish(evalQ, published)
                /\ last' = [Step("refine", "candidate", job, published, <<>>)
                              EXCEPT !.gates = <<out>>]
                /\ UNCHANGED <<pointers, chats, auditQ, promoting, turns>>

Refiner ==
  \E job \in BagToSet(refineQ) : \E out \in RewriteOutputs : refine_agent(job, out, NoFault)

\* runs of the Refiner in which a store or generation call raises
RefinerFaulty ==
  \E job \in BagToSet(refineQ) : \E out \in RewriteOutputs : \E fault \in Faults :
    refine_agent(job, out, fault)

(* ---------------------------------------------------------------------- *)
(* Evaluator (src/services/evaluator_worker.py)                            *)
(* ---------------------------------------------------------------------- *)
\* what a gate's judge call can return
GateOutputs ==
  { [kind |-> "invalid", verdict |-> Missing, reason |-> "gate reason"],
    [kind |-> "object", verdict |-> "PASS", reason |-> "gate reason"],
    [kind |-> "object", verdict |-> "FAIL", reason |-> "gate reason"],
    [kind |-> "object", verdict |-> "UNSURE", reason |-> "gate reason"] }

\* the loop over history (lines 56-64): the content of the last user entry, "" when none
LastUserInput(history) ==
  LET users == {i \in DOMAIN history : history[i].role = "user"}
  IN IF users = {} THEN Absent
     ELSE history[CHOOSE i \in users : \A k \in users : k <= i].content

\* original_audit_reason (lines 53-54)
OriginalAuditReason(chat) ==
  IF chat.audit_result = <<>> THEN UnknownAuditFailure ELSE chat.audit_result[1].reason

\* retry_payload built as the Auditor builds its escalation: it names the
\* family's document and carries no refinement_depth
RetryJob_fresh_chain(chat_id, agent_id, depth, evaluator_reason, made) ==
  [ chat_id |-> chat_id, agent_id |-> FamilyDocId(BaseOf(agent_id)),
    failure_reason |-> evaluator_reason, refinement_depth |-> Absent,
    original_input |-> Absent, bad_response |-> Absent,
    full_history |-> <<>>, priority |-> Missing, made |-> 0,
    chain_input |-> Absent, delivery_attempt |-> 1 ]

\* retry_payload naming the family's document instead of the rejected candidate
RetryJob_family_doc(chat_id, agent_id, depth, evaluator_reason, made) ==
  [ chat_id |-> chat_id, agent_id |-> FamilyDocId(BaseOf(agent_id)),
    failure_reason |-> evaluator_reason, refinement_depth |-> depth + 1,
    original_input |-> Absent, bad_response |-> Absent,
    full_history |-> <<>>, priority |-> Missing, made |-> made,
    chain_input |-> Absent, delivery_attempt |-> 1 ]

\* retry_payload (lines 198-203)
RetryJob(chat_id, agent_id, depth, evaluator_reason, made) ==
  [ chat_id |-> chat_id, agent_id |-> agent_id,
    failure_reason |-> evaluator_reason, refinement_depth |-> depth + 1,
    original_input |-> Absent, bad_response |-> Absent,
    full_history |-> <<>>, priority |-> Missing, made |-> made,
    chain_input |-> Absent, delivery_attempt |-> 1 ]

\* the alert of the else branch (lines 206-232)
TerminalAlert(evaluator_reason, audit_reason) ==
  [kind |-> "terminal", audit_reason |-> audit_reason, evaluator_reason |-> evaluator_reason]

\* handle_failure with the depth test off by one
handle_failure_late(chat_id, agent_id, depth, evaluator_reason, audit_reason, made) ==
  IF depth <= EvaluatorDepthLimit
    THEN [ published |-> <<RetryJob(chat_id, agent_id, depth, evaluator_reason, made)>>,
           alerts |-> <<>> ]
    ELSE [ published |-> <<>>,
           alerts |-> <<TerminalAlert(evaluator_reason, audit_reason)>> ]

\* handle_failure called without the audit reason: its default "N/A" is used
handle_failure_default_reason(chat_id, agent_id, depth, evaluator_reason, audit_reason, made) ==
  IF depth < EvaluatorDepthLimit
    THEN [ published |-> <<RetryJob(chat_id, agent_id, depth, evaluator_reason, made)>>,
           alerts |-> <<>> ]
    ELSE [ published |-> <<>>,
           alerts |-> <<TerminalAlert(evaluator_reason, <<NoPrefix, "N/A">>)>> ]

\* handle_failure: what it publishes to the refine topic and the alerts it raises
handle_failure(chat_id, agent_id, depth, evaluator_reason, audit_reason, made) ==
  IF depth < EvaluatorDepthLimit
    THEN [ published |-> <<RetryJob(chat_id, agent_id, depth, evaluator_reason, made)>>,
           alerts |-> <<>> ]
    ELSE [ published |-> <<>>,
           alerts |-> <<TerminalAlert(evaluator_reason, audit_reason)>> ]

\* a gate fails when the parsed verdict == "FAIL" (lines 116, 146)
GateFails(out) == out.verdict = "FAIL"

\* the pointer update without current_version
PromotePointer_stale_version(pointer, candidate_agent_id, candidate_data, failure_reason) ==
  [ pointer EXCEPT
      !.active_agent_doc_ref = candidate_agent_id,
      !.reason = <<"Auto-fixed: ", failure_reason>> ]

\* the pointer update without active_agent_doc_ref
PromotePointer_version_only(pointer, candidate_agent_id, candidate_data, failure_reason) ==
  [ pointer EXCEPT
      !.current_version = candidate_data.version,
      !.reason = <<"Auto-fixed: ", failure_reason>> ]

\* the pointer update counting current_version up by one
PromotePointer_version_counted(pointer, candidate_agent_id, candidate_data, failure_reason) ==
  [ pointer EXCEPT
      !.active_agent_doc_ref = candidate_agent_id,
      !.current_version = pointer.current_version + 1,
      !.reason = <<"Auto-fixed: ", failure_reason>> ]

\* the pointer update of the promotion (lines 159-164)
PromotePointer(pointer, candidate_agent_id, candidate_data, failure_reason) ==
  [ pointer EXCEPT
      !.active_agent_doc_ref = candidate_agent_id,
      !.current_version = candidate_data.version,
      !.reason = <<"Auto-fixed: ", failure_reason>> ]

\* run_evaluation from the start to the pointer write (lines 18-164)
run_evaluation(job, perf, comp, fault) ==
  /\ evalQ' = evalQ (-) SetToBag({job})
  /\ UNCHANGED redelivered
  /\ LET chat  == chats[job.chat_id]
         depth == DepthOf(job)
         judged(step, calls) == [step EXCEPT !.gates = calls]
         abort(outcome, calls) ==
           /\ last' = judged(Step("evaluate", outcome, job, <<>>, <<>>), calls)
           /\ UNCHANGED <<agents, pointers, chats, auditQ, refineQ, promoting, turns>>
         reject(prefix, out, calls) ==
           LET h == handle_failure(job.chat_id, job.target_agent_id, depth,
                                   <<prefix, out.reason>>, OriginalAuditReason(chat), job.made)
               published == [ i \in DOMAIN h.published |->
                                [h.published[i] EXCEPT !.chain_input = job.chain_input] ]
           IN /\ refineQ' = Publish(refineQ, published)
              /\ last' = judged(Step("evaluate", "rejected", job, published, h.alerts), calls)
              /\ UNCHANGED <<agents, pointers, chats, auditQ, promoting, turns>>
     IN IF fault = "read" THEN abort("store_read_failed", <<>>)
        ELSE IF ~chat.exists THEN abort("no_chat", <<>>)
        ELSE IF LastUserInput(chat.history) = Absent THEN abort("no_input", <<>>)
        ELSE IF job.target_agent_id \notin DOMAIN agents THEN abort("no_candidate", <<>>)
        ELSE IF fault = "generate" THEN abort("generation_failed", <<>>)
        ELSE IF perf.kind = "invalid" THEN abort("exception", <<perf>>)
        ELSE IF GateFails(perf) THEN reject(PerfPrefix, perf, <<perf>>)
        ELSE IF comp.kind = "invalid" THEN abort("exception", <<perf, comp>>)
        ELSE IF GateFails(comp) THEN reject(CompPrefix, comp, <<perf, comp>>)
        ELSE IF job.original_agent_id \notin DOMAIN pointers
          THEN abort("exception", <<perf, comp>>)
        ELSE IF fault = "write" THEN abort("store_write_failed", <<perf, comp>>)
        ELSE /\ pointers' = [pointers EXCEPT ![job.original_agent_id] =
                               PromotePointer(@, job.target_agent_id,
                                              agents[job.target_agent_id], job.trigger_reason)]
             /\ promoting' = promoting \cup {job}
             /\ last' = judged(Step("evaluate", "pointer_written", job, <<>>, <<>>),
                               <<perf, comp>>)
             /\ UNCHANGED <<agents, chats, auditQ, refineQ, turns>>

\* gate 2 is not called when gate 1 raised or failed
Gate2Outputs(perf) ==
  IF perf.kind = "invalid" \/ GateFails(perf)
    THEN {[kind |-> "unused", verdict |-> Missing, reason |-> "gate reason"]}
    ELSE GateOutputs

Evaluator ==
  \E job \in BagToSet(evalQ) : \E perf \in GateOutputs : \E comp \in Gate2Outputs(perf) :
    run_evaluation(job, perf, comp, NoFault)

\* runs of the Evaluator in which a store or generation call raises
EvaluatorFaulty ==
  \E job \in BagToSet(evalQ) : \E perf \in GateOutputs : \E comp \in Gate2Outputs(perf) :
    \E fault \in Faults : run_evaluation(job, perf, comp, fault)

\* run_evaluation, the rest: the candidate is flagged ACTIVE (lines 166-169)
mark_candidate_active(job, fault) ==
  /\ promoting' = promoting \ {job}
  /\ agents' = IF fault = "write" \/ job.target_agent_id \notin DOMAIN agents THEN agents
                ELSE [agents EXCEPT ![job.target_agent_id].deployment_state = "ACTIVE"]
  /\ last' = Step("evaluate",
                  IF fault = "write" THEN "store_write_failed"
                  ELSE IF job.target_agent_id \notin DOMAIN agents THEN "exception"
                  ELSE "promoted",
                  job, <<>>, <<>>)
  /\ UNCHANGED <<pointers, chats, auditQ, refineQ, evalQ, turns, redelivered>>

EvaluatorFinish == \E job \in promoting : mark_candidate_active(job, NoFault)

\* the flag write of a promotion raises
EvaluatorFinishFaulty == \E job \in promoting : mark_candidate_active(job, "write")

Next == Gateway \/ Auditor \/ Refiner \/ Evaluator \/ EvaluatorFinish

\* one chat
Spec == Init /\ [][Next]_vars

NextChats == Next \/ GatewayOther

(* ---------------------------------------------------------------------- *)
(* Jobs delivered with any refinement_depth.  The topics accept messages   *)
(* from any publisher; the handlers are applied to a RefineJob or an       *)
(* EvaluateJob whose depth is drawn from 0..MaxJobDepth, in the store as   *)
(* it is after one audited turn and one refinement.                        *)
(* ---------------------------------------------------------------------- *)
DeliveredAudit == [verdict |-> "FAIL", reason |-> JudgeReason, priority |-> "MEDIUM"]

DeliveredChat ==
  StoreAudit(save_chat_log(NoChat, UserMessage(1), BotText(SeedDoc), 1), DeliveredAudit)

DeliveredCandidateId == VersionedId(Family, NewVersion(SeedDoc))

UnknownDocId == VersionedId(Family, NewVersion(SeedDoc) + MaxJobDepth)

DeliveredRefineJob(agent_id, depth) ==
  [ RetryJob("c1", agent_id, depth, <<PerfPrefix, "gate reason">>, 1) EXCEPT
      !.refinement_depth = depth ]

DeliveredEvaluateJob(depth) ==
  [ EvaluateJob(DeliveredRefineJob(SeedId, depth), DeliveredCandidateId, Family,
                NewVersion(SeedDoc)) EXCEPT !.made = 1 ]

InitDelivered ==
  /\ agents = (DeliveredCandidateId :> NewAgentData(SeedDoc, DeliveredCandidateId, RewriteA))
                 @@ (SeedId :> SeedDoc)
  /\ pointers = (Family :> SeedPointer)
  /\ chats = [c \in Chats |-> IF c = "c1" THEN DeliveredChat ELSE NoChat]
  /\ auditQ = EmptyBag
  /\ promoting = {}
  /\ turns = 1
  /\ redelivered = 0
  /\ last = Step("seed", "ok", NoJob, <<>>, <<>>)
  /\ \E depth \in 0..MaxJobDepth :
       \/ /\ evalQ = SetToBag({DeliveredEvaluateJob(depth)})
          /\ refineQ = EmptyBag
       \/ /\ evalQ = EmptyBag
          /\ \E agent_id \in {DeliveredCandidateId, UnknownDocId} :
               refineQ = SetToBag({DeliveredRefineJob(agent_id, depth)})

\* the pipeline, and the handlers applied to delivered jobs of any depth
SpecOpen == (Init \/ InitDelivered) /\ [][Next]_vars

\* two chats of the same family
SpecChats == Init /\ [][NextChats]_vars

(* ---------------------------------------------------------------------- *)
(* Generator (src/core/llm.py).  Costs are integers: total_cost in tenths   *)
(* of a micro-dollar, estimated_cost in micro-dollars (6 decimals).         *)
(* ---------------------------------------------------------------------- *)
\* the fallback estimate of the except branch (lines 41-42)
EstimatedTokens(chars) == chars \div CharsPerToken

\* total_cost = input_cost + output_cost (lines 48-50)
TotalCost(input_tokens, output_tokens) ==
  input_tokens * InputPrice + output_tokens * OutputPrice

\* round(total_cost, 6) cutting the digits after the sixth
RoundToMicro_truncated(tenths) == {tenths \div 10}

\* round(total_cost, 6): the nearest micro-dollar; a total that lies halfway
\* is a binary float just below or just above the half and goes either way
RoundToMicro(tenths) ==
  LET q == tenths \div 10
      r == tenths % 10
  IN IF r < 5 THEN {q} ELSE IF r > 5 THEN {q + 1} ELSE {q, q + 1}

\* the metrics of one call
Metrics(input_tokens, output_tokens, estimated_cost, text_chars, from_api) ==
  [ input_tokens |-> input_tokens, output_tokens |-> output_tokens,
    total_tokens |-> input_tokens + output_tokens,
    estimated_cost |-> estimated_cost, text_chars |-> text_chars,
    usage_metadata |-> from_api,
    chat_id |-> "", refinement_depth |-> Absent, made |-> 0, delivery_attempt |-> 1 ]

\* generate_response, from the reply of the model to the returned metrics
generate_response(system_chars, user_chars, text_chars, usage) ==
  LET from_api      == usage # <<>>
      input_tokens  == IF from_api THEN usage[1]
                       ELSE EstimatedTokens(system_chars + user_chars)
      output_tokens == IF from_api THEN usage[2] ELSE EstimatedTokens(text_chars)
  IN /\ \E estimated_cost \in RoundToMicro(TotalCost(input_tokens, output_tokens)) :
          last' = Step("generate", "ok",
                       Metrics(input_tokens, output_tokens, estimated_cost,
                               text_chars, from_api), <<>>, <<>>)
     /\ UNCHANGED <<agents, pointers, chats, auditQ, refineQ, evalQ, promoting,
                    turns, redelivered>>

\* the token counts the API can report for a reply of text_chars characters:
\* a prompt has at least one token, a non-empty text has at least one token
UsageMetadata(text_chars) ==
  { <<i, o>> : i \in 1..MaxTokens, o \in (IF text_chars > 0 THEN 1 ELSE 0)..MaxTokens }

\* one call as the services make it, with and without usage_metadata
Generator ==
  /\ last.op = "seed"
  /\ \E system_chars \in MinPromptChars..(MinPromptChars + CharsPerToken) :
       \E user_chars \in 0..MaxChars : \E text_chars \in 0..MaxChars :
         \E usage \in UsageMetadata(text_chars) \cup {<<>>} :
           generate_response(system_chars, user_chars, text_chars, usage)

SpecCost == Init /\ [][Generator]_vars

(* ---------------------------------------------------------------------- *)
(* Failing requests.  reset_database deletes the collections one after the  *)
(* other, "agents" before "pointers": a request served in between finds the *)
(* pointer without its document.                                            *)
(* ---------------------------------------------------------------------- *)
NoDocuments == [id \in {} |-> SeedDoc]

InitMidReset ==
  /\ agents = NoDocuments
  /\ pointers = (Family :> SeedPointer)
  /\ chats = [c \in Chats |-> NoChat]
  /\ auditQ = EmptyBag
  /\ refineQ = EmptyBag
  /\ evalQ = EmptyBag
  /\ promoting = {}
  /\ turns = 0
  /\ redelivered = 0
  /\ last = Step("seed", "ok", NoJob, <<>>, <<>>)

NextFaults == Next \/ GatewayFaulty

\* the pipeline with requests that fail
SpecFaults == (Init \/ InitMidReset) /\ [][NextFaults]_vars

(* ---------------------------------------------------------------------- *)
(* Reset (src/services/gateway_service.py, reset_database).  The request   *)
(* carries the header x-admin-key or none.  A reset that goes through       *)
(* deletes the collections and seeds; it is taken as one step, so that no   *)
(* other handler runs between its deletes and its writes.  The topics are   *)
(* not part of the store and keep their messages.                           *)
(* ---------------------------------------------------------------------- *)
AdminKey == "hackathon-secret"

\* the header values of a request: the key, another string, no header
AdminKeys == {AdminKey, "wrong-key", Missing}

\* the check accepting a request without the header
Unauthorized_header_optional(x_admin_key) ==
  x_admin_key # AdminKey /\ x_admin_key # Missing

\* the check of lines 149-152
Unauthorized(x_admin_key) == x_admin_key # AdminKey

ResetRequest(x_admin_key) ==
  [ x_admin_key |-> x_admin_key, chat_id |-> "", refinement_depth |-> Absent,
    made |-> 0, delivery_attempt |-> 1 ]

\* reset_database, one whole request
reset_database(x_admin_key) ==
  /\ UNCHANGED <<auditQ, refineQ, evalQ, promoting, turns, redelivered>>
  /\ IF Unauthorized(x_admin_key)
       THEN /\ last' = Step("reset", "unauthorized", ResetRequest(x_admin_key), <<>>, <<>>)
            /\ UNCHANGED <<agents, pointers, chats>>
       ELSE /\ chats' = [c \in Chats |-> NoChat]
            /\ agents' = (SeedId :> SeedDoc)
            /\ pointers' = (Family :> SeedPointer)
            /\ last' = Step("reset", "ok", ResetRequest(x_admin_key), <<>>, <<>>)

Reset == \E x_admin_key \in AdminKeys : reset_database(x_admin_key)

NextReset == Next \/ Reset

\* the pipeline with reset requests
SpecReset == Init /\ [][NextReset]_vars

(* ---------------------------------------------------------------------- *)
(* Redelivery (src/core/pubsub.py).  The wrapper acks a message after the   *)
(* callback returned; a message whose ack did not reach the service in time *)
(* is delivered again.  The job a handler has just processed is put back on *)
(* its topic, marked as the second delivery, and is processed at any later  *)
(* point of the run.                                                        *)
(* ---------------------------------------------------------------------- *)
Redeliver ==
  /\ last.op \in {"refine", "evaluate"}
  /\ last.outcome # "pointer_written"
  /\ last.job.delivery_attempt = 1
  /\ redelivered < MaxRedeliveries
  /\ redelivered' = redelivered + 1
  /\ LET again == [last.job EXCEPT !.delivery_attempt = 2]
     IN /\ refineQ' = IF last.op = "refine" THEN Publish(refineQ, <<again>>) ELSE refineQ
        /\ evalQ' = IF last.op = "evaluate" THEN Publish(evalQ, <<again>>) ELSE evalQ
        /\ last' = Step("redeliver", last.op, again, <<again>>, <<>>)
  /\ UNCHANGED <<agents, pointers, chats, auditQ, promoting, turns>>

NextRedelivery == Next \/ Redeliver

\* the seeded store, with one /chat request left to serve
InitOneTurn ==
  /\ agents = (SeedId :> SeedDoc)
  /\ pointers = (Family :> SeedPointer)
  /\ chats = [c \in Chats |-> NoChat]
  /\ auditQ = EmptyBag
  /\ refineQ = EmptyBag
  /\ evalQ = EmptyBag
  /\ promoting = {}
  /\ turns = MaxTurns - 1
  /\ redelivered = 0
  /\ last = Step("seed", "ok", NoJob, <<>>, <<>>)

\* the pipeline of one audited turn with at-least-once delivery
SpecRedelivery == InitOneTurn /\ [][NextRedelivery]_vars

\* every published job is delivered and every handler call returns: the
\* subscriber of each topic runs its callback for each message it holds
Delivery ==
  /\ WF_vars(Auditor)
  /\ WF_vars(Refiner)
  /\ WF_vars(Evaluator)
  /\ WF_vars(EvaluatorFinish)

SpecFair == (Init \/ InitDelivered) /\ [][Next]_vars /\ Delivery

(* ---------------------------------------------------------------------- *)
(* Messages that are not jobs (src/core/pubsub.py).  A topic accepts any    *)
(* bytes.  The wrapper is applied to a message whose data is not JSON       *)
(* (json.loads raises) and to one whose JSON is not an object (the handler  *)
(* raises at payload.get, ahead of its own try).  Both are nacked and stay  *)
(* on the subscription; the store and the topics are as they were.          *)
(* ---------------------------------------------------------------------- *)
NotJobs == {"undecodable", "nonobject"}

Undeliverable ==
  \E data \in NotJobs :
    /\ last' = [ Step("deliver", data, NoJob, <<>>, <<>>)
                  EXCEPT !.settled = wrapper(data # "undecodable", FALSE) ]
    /\ UNCHANGED <<agents, pointers, chats, auditQ, refineQ, evalQ, promoting,
                   turns, redelivered>>

NextBus == Next \/ Undeliverable

NextWorkerFaults ==
  Next \/ AuditorFaulty \/ RefinerFaulty \/ EvaluatorFaulty \/ EvaluatorFinishFaulty

\* the pipeline with store and generation calls that raise inside the workers
SpecWorkerFaults == Init /\ [][NextWorkerFaults]_vars

\* the pipeline with messages that are not jobs
SpecBus == Init /\ [][NextBus]_vars

(* ====================================================================== *)
(* Properties                                                              *)
(* ====================================================================== *)
\* the step just taken is a served /chat request
ChatServed == last'.op = "chat" /\ last'.outcome = "ok"

\* the stored verdict of a chat is v
VerdictIs(chat, v) == chat.audit_result # <<>> /\ chat.audit_result[1].verdict = v

\* C1  Audit suppression: a served Gateway turn leaves the audit topic as it
\* was when the chat's stored verdict is FAIL at the check, and adds exactly
\* one AuditJob of that chat when the chat has no audit_result or its verdict
\* is PASS.
C1_AuditSuppression ==
  [][ ChatServed =>
        LET c    == last'.job.chat_id
            chat == chats'[c]
        IN /\ VerdictIs(chat, "FAIL") => auditQ' = auditQ /\ last'.published = <<>>
           /\ (chat.audit_result = <<>> \/ VerdictIs(chat, "PASS")) =>
                /\ Len(last'.published) = 1
                /\ last'.published[1].chat_id = c
                /\ last'.published[1].user_input = chat.history[Len(chat.history) - 1].content
                /\ auditQ' = auditQ (+) SetToBag({last'.published[1]})
                /\ BagCardinality(auditQ') = BagCardinality(auditQ) + 1 ]_vars

\* a turn was served while the chat's verdict was FAIL, and nothing was enqueued
C1_Witness ==
  /\ last.op = "chat" /\ last.outcome = "ok"
  /\ VerdictIs(chats[last.job.chat_id], "FAIL")
  /\ last.published = <<>>

\* C2  Depth bound: every RefineJob the Evaluator publishes, for an
\* EvaluateJob of any depth, carries refinement_depth <= 2.
C2_DepthBound ==
  last.op = "evaluate" =>
    \A i \in DOMAIN last.published :
      /\ last.published[i].refinement_depth <= 2
      /\ last.published[i].refinement_depth = DepthOf(last.job) + 1

\* the Evaluator has published a retry at the largest depth, 2
C2_Witness ==
  /\ last.op = "evaluate" /\ last.outcome = "rejected"
  /\ Len(last.published) = 1 /\ last.published[1].refinement_depth = 2
  /\ BagIn(last.published[1], refineQ)

\* the step just taken is handle_failure called with depth >= 2
TerminalFailure ==
  last'.op = "evaluate" /\ last'.outcome = "rejected" /\ DepthOf(last'.job) >= 2

ChainTerminal == last.op \in {"refine", "evaluate"} /\ last.alerts # <<>>

\* C4 as claimed  Retry budget: when a chain in which every evaluation failed
\* reaches its terminal state, the Refiner has created exactly three
\* candidates for it.
C4_ThreeCandidates == ChainTerminal => last.job.made = 3

\* C4 as amended  When a chain in which every evaluation failed reaches its
\* terminal state, the Refiner has created exactly two candidates for it (the
\* first attempt and one retry), and the terminal state is the Refiner's
\* loop-detected abort of the RefineJob of depth 2.
C4_TwoCandidates ==
  ChainTerminal =>
    /\ last.job.made = 2
    /\ last.op = "refine" /\ last.outcome = "loop_detected"
    /\ last.job.refinement_depth = 2

\* a chain ended in the loop-detected abort after its second candidate was rejected
C4_Witness ==
  /\ last.op = "refine" /\ last.outcome = "loop_detected"
  /\ last.job.made = 2 /\ last.job.failure_reason[1] \in {PerfPrefix, CompPrefix}

\* the step just taken is refine_agent on a RefineJob of depth >= 2
GuardedRefine == last'.op = "refine" /\ DepthOf(last'.job) >= 2

\* C5  Refiner guard: refine_agent on a RefineJob with refinement_depth >= 2
\* writes no AgentConfig, publishes no EvaluateJob, leaves agents and pointers
\* as they were and emits the loop-detected alert, whether or not the job's
\* agent document exists.
C5_RefinerGuard ==
  [][ GuardedRefine =>
        /\ agents' = agents /\ pointers' = pointers /\ chats' = chats
        /\ evalQ' = evalQ /\ last'.published = <<>>
        /\ refineQ' = refineQ (-) SetToBag({last'.job})
        /\ last'.outcome = "loop_detected"
        /\ last'.alerts = <<LoopDetected>> ]_vars

\* the Refiner aborted a job of depth >= 2 whose agent document does not exist
C5_Witness ==
  /\ last.op = "refine" /\ DepthOf(last.job) >= 2
  /\ last.job.agent_id \notin DOMAIN agents
  /\ last.alerts = <<LoopDetected>>

\* the documents of a family
FamilyDocs(store, family) == {id \in DOMAIN store : BaseOf(id) = family}

\* the largest version among the documents of a family
MaxVersion(store, family) ==
  LET versions == {store[id].version : id \in FamilyDocs(store, family)}
  IN CHOOSE v \in versions : \A w \in versions : w <= v

\* the step just taken is a Refiner run that persisted a candidate
CandidatePersisted == last'.op = "refine" /\ last'.outcome = "candidate"

\* C6 as claimed  Version monotonicity: every Refiner run that persists a
\* candidate gives it version max(versions existing for the family) + 1, and
\* no two documents of a family have the same version.
C6_VersionMonotonicity ==
  [][ /\ CandidatePersisted =>
           LET id == last'.published[1].target_agent_id
           IN agents'[id].version = MaxVersion(agents, BaseOf(id)) + 1
      /\ \A a, b \in DOMAIN agents' :
           (BaseOf(a) = BaseOf(b) /\ agents'[a].version = agents'[b].version) => a = b ]_vars

\* C7  Immutable fields: the candidate a Refiner run persists has the rules
\* (upgrade_config), resources and model settings (config) of the document it
\* was cloned from, for every parsed rewrite, also one that names those
\* fields; parent and candidate differ at most in prompt and in the fields
\* that identify the version.
C7_ImmutableFields ==
  [][ CandidatePersisted =>
        LET parent    == agents[last'.job.agent_id]
            candidate == agents'[last'.published[1].target_agent_id]
        IN /\ candidate.upgrade_config = parent.upgrade_config
           /\ candidate.resources = parent.resources
           /\ candidate.config = parent.config
           /\ candidate = [parent EXCEPT !.prompt = candidate.prompt,
                                         !.version = candidate.version,
                                         !.agent_id = candidate.agent_id,
                                         !.deployment_state = candidate.deployment_state] ]_vars

\* a candidate was persisted from a rewrite that names rules, resources and config
C7_Witness ==
  /\ last.op = "refine" /\ last.outcome = "candidate"
  /\ {"upgrade_config", "resources", "config"} \subseteq
       DOMAIN agents[last.published[1].target_agent_id].prompt
  /\ agents[last.published[1].target_agent_id].config = SeedDoc.config

\* C8 as claimed  Promotion: when run_evaluation completes after a double
\* PASS for candidate C, a read of the family's pointer returns C's id and
\* C's version.
C8_PromotionRead ==
  [][ (last'.op = "evaluate" /\ last'.outcome = "promoted") =>
        LET job == last'.job
        IN /\ pointers'[job.original_agent_id].active_agent_doc_ref = job.target_agent_id
           /\ pointers'[job.original_agent_id].current_version = job.version ]_vars

\* C8 as amended  The pointer write of a double-PASS evaluation of candidate
\* C sets active id = C's id and current_version = C's version, and a pointer
\* read at that moment resolves to C's document; a read made after a later
\* pointer write of another promotion of the family returns that promotion's
\* candidate.
C8_PromotionWrite ==
  [][ (last'.op = "evaluate" /\ last'.outcome = "pointer_written") =>
        LET job == last'.job
        IN /\ pointers'[job.original_agent_id].active_agent_doc_ref = job.target_agent_id
           /\ pointers'[job.original_agent_id].current_version = job.version
           /\ job.version = agents[job.target_agent_id].version
           /\ pointers'[job.original_agent_id].active_agent_doc_ref \in DOMAIN agents'
           /\ agents'[pointers'[job.original_agent_id].active_agent_doc_ref]
                = agents[job.target_agent_id] ]_vars

\* a double-PASS evaluation has written the pointer, which now targets its candidate
C8_Witness ==
  /\ last.op = "evaluate" /\ last.outcome = "pointer_written"
  /\ pointers[Family].active_agent_doc_ref = last.job.target_agent_id
  /\ pointers[Family].active_agent_doc_ref # SeedId

\* the documents of a family flagged ACTIVE
ActiveDocs(family) ==
  {id \in FamilyDocs(agents, family) : agents[id].deployment_state = "ACTIVE"}

\* C9 as claimed  Single ACTIVE: exactly one document of each family has
\* deployment_state ACTIVE.
C9_SingleActive == \A family \in DOMAIN pointers : Cardinality(ActiveDocs(family)) = 1

\* C10 as claimed  Pointer invariant: the pointer's active id of each family
\* resolves to an existing document whose deployment_state is ACTIVE; stated
\* for the states in which no promotion is between its pointer write and its
\* flag write.
C10_PointerTargetActive ==
  promoting = {} =>
    \A family \in DOMAIN pointers :
      /\ pointers[family].active_agent_doc_ref \in DOMAIN agents
      /\ agents[pointers[family].active_agent_doc_ref].deployment_state = "ACTIVE"

\* the step just taken is a Refiner or an Evaluator step
PipelineWrite == last'.op \in {"refine", "evaluate"}

\* C11 as claimed  Versions are immutable once created: no Refiner or
\* Evaluator step changes the prompt fields of a document that exists, and
\* every refinement that persists a candidate writes a document id that did
\* not exist before.
C11_VersionsImmutable ==
  [][ PipelineWrite =>
        /\ \A id \in DOMAIN agents :
             id \in DOMAIN agents' /\ agents'[id].prompt = agents[id].prompt
        /\ CandidatePersisted =>
             last'.published[1].target_agent_id \notin DOMAIN agents ]_vars

\* the verdict a gate's judge returned in the step just taken
GateVerdict(i) == last'.gates[i].verdict

\* C12 as claimed  Promotion requires a double PASS: an Evaluator step writes
\* the pointer only if the judges of gate 1 and of gate 2 both returned the
\* verdict PASS; for every other judge outcome the pointer is as it was.
C12_DoublePass ==
  [][ (last'.op = "evaluate" /\ last'.gates # <<>>) =>
        \/ GateVerdict(1) = "PASS" /\ GateVerdict(2) = "PASS"
        \/ pointers' = pointers /\ last'.outcome # "pointer_written" ]_vars

\* no job is in flight and no evaluation is between its two writes
Quiescent ==
  /\ auditQ = EmptyBag /\ refineQ = EmptyBag /\ evalQ = EmptyBag
  /\ promoting = {}

\* C13  Bounded refinement loop: when every published job is delivered once
\* and every handler call returns, every chain of jobs terminates, whatever
\* the judges and the generator return: from some point on no job is in flight.
C13_ChainsTerminate == <>[]Quiescent

\* a chain ran to the Refiner's loop-detected abort and nothing is in flight
C13_Witness ==
  /\ Quiescent
  /\ last.op = "refine" /\ last.outcome = "loop_detected" /\ last.job.made = 2
  /\ chats["c1"].audit_result # <<>>

\* the step just taken is a handler run on a job it has processed before
Redelivered == last'.op \in {"refine", "evaluate"} /\ last'.job.delivery_attempt = 2

\* what a document holds, apart from its deployment flag
Content(doc) == [doc EXCEPT !.deployment_state = "-"]

\* C14 as claimed  Safe redelivery: a Refiner or Evaluator run on a job that
\* was processed before leaves the content of every AgentConfig document that
\* exists as it is, and a repeated Refiner run leaves the configuration the
\* pointer resolves to as it is.
C14_SafeRedelivery ==
  [][ Redelivered =>
        /\ \A id \in DOMAIN agents :
             id \in DOMAIN agents' /\ Content(agents'[id]) = Content(agents[id])
        /\ last'.op = "refine" =>
             \A family \in DOMAIN pointers :
               agents'[pointers'[family].active_agent_doc_ref]
                 = agents[pointers[family].active_agent_doc_ref] ]_vars

\* the step just taken is a /chat request whose configuration does not
\* resolve or whose generation call fails
FailingRequest ==
  /\ last'.op = "chat"
  /\ \/ last'.job.agent_id \notin DOMAIN pointers
     \/ pointers[last'.job.agent_id].active_agent_doc_ref \notin DOMAIN agents
     \/ ~last'.job.generated

\* C15  Gateway failure: a request whose pointer is missing, whose pointer
\* names a missing document or whose generation call fails returns an error;
\* the history of its chat and every other document are as they were and no
\* AuditJob is enqueued.
C15_GatewayFailure ==
  [][ FailingRequest =>
        /\ last'.outcome \in {"no_config", "generation_failed"}
        /\ chats' = chats
        /\ auditQ' = auditQ /\ last'.published = <<>>
        /\ UNCHANGED <<agents, pointers, refineQ, evalQ, promoting>> ]_vars

\* the generation call of a request failed on a chat that has a history
C15_Witness ==
  /\ last.op = "chat" /\ last.outcome = "generation_failed"
  /\ chats[last.job.chat_id].history # <<>>
  /\ auditQ = EmptyBag

\* a history is a sequence of (user, model) pairs, each written by one turn
PairedHistory(history) ==
  /\ Len(history) % 2 = 0
  /\ \A i \in DOMAIN history :
       i % 2 = 1 =>
         /\ history[i].role = "user"
         /\ history[i + 1].role = "model"
         /\ history[i + 1].timestamp = history[i].timestamp

\* C16  History append: every served turn appends to the history of its chat
\* exactly its user entry followed by its model entry and no other step
\* changes a history, so after N served turns the histories hold 2N entries
\* in all, and every user entry is followed by the model entry of its turn.
C16_HistoryAppend ==
  [][ /\ ChatServed =>
           LET c == last'.job.chat_id
               n == Len(chats[c].history)
           IN /\ Len(chats'[c].history) = n + 2
              /\ SubSeq(chats'[c].history, 1, n) = chats[c].history
              /\ chats'[c].history[n + 1].content = UserMessage(turns')
              /\ \A other \in Chats \ {c} : chats'[other] = chats[other]
      /\ ~ChatServed => \A c \in Chats : chats'[c].history = chats[c].history
      /\ \A c \in Chats : PairedHistory(chats'[c].history)
      /\ Len(chats'["c1"].history) + Len(chats'["c2"].history) = 2 * turns' ]_vars

\* two chats were served in turn and a second turn of one chat was appended
C16_Witness ==
  /\ last.op = "chat" /\ last.outcome = "ok"
  /\ Len(chats["c1"].history) + Len(chats["c2"].history) = 2 * MaxTurns
  /\ chats["c1"].history # <<>> /\ chats["c2"].history # <<>>

\* the metrics of the generation call just made
Generated == last.op = "generate"

\* C17  Cost: every non-empty generated response has estimated_cost > 0, and
\* estimated_cost is input_tokens * 0.30/1e6 + output_tokens * 2.50/1e6 rounded
\* to the nearest micro-dollar, for the token counts of the API and for the
\* fallback estimate len // 4.
C17_Cost ==
  Generated =>
    LET m      == last.job
        tenths == 3 * m.input_tokens + 25 * m.output_tokens
    IN /\ m.text_chars > 0 => m.estimated_cost > 0
       /\ 10 * m.estimated_cost - tenths \in -5..5
       /\ ~m.usage_metadata => m.output_tokens = m.text_chars \div 4

\* a non-empty text shorter than one estimated token was priced by the fallback
C17_Witness ==
  /\ Generated /\ ~last.job.usage_metadata
  /\ last.job.text_chars > 0 /\ last.job.output_tokens = 0
  /\ last.job.estimated_cost > 0

\* the step just taken is a served turn on the chat whose failure the
\* promotion completed in the step before was made for, its verdict still FAIL
TurnAfterPromotion ==
  /\ last.op = "evaluate" /\ last.outcome = "promoted"
  /\ VerdictIs(chats[last.job.chat_id], "FAIL")
  /\ ChatServed /\ last'.job.chat_id = last.job.chat_id

\* C18 as claimed  Suppression ends when a fix lands: for a chat whose verdict
\* is FAIL, the Gateway turn that follows the promotion of a candidate made
\* for that chat's failure enqueues an AuditJob.
C18_SuppressionEnds ==
  [][ TurnAfterPromotion =>
        /\ Len(last'.published) = 1
        /\ auditQ' = auditQ (+) SetToBag({last'.published[1]}) ]_vars

\* a judge output that is not a well-formed verdict object
Malformed(out) == out.kind \in {"empty", "invalid", "nonobject"} \/ out.verdict = Missing

\* the step just taken is an audit whose judge returned a malformed output
MalformedAudit ==
  last'.op = "audit" /\ last'.gates # <<>> /\ Malformed(last'.gates[1])

\* C19 as claimed  Auditor fail-closed: for every judge output that is empty,
\* not JSON, or JSON that is not an object with a verdict, the Auditor stores
\* audit_result with verdict FAIL, priority HIGH and a synthetic reason and
\* publishes a RefineJob.
C19_AuditorFailClosed ==
  [][ MalformedAudit =>
        LET chat == chats'[last'.job.chat_id]
        IN /\ last'.outcome = "stored"
           /\ chat.audit_result # <<>>
           /\ chat.audit_result[1].verdict = "FAIL"
           /\ chat.audit_result[1].priority = "HIGH"
           /\ chat.audit_result[1].reason \in {EmptyReason, InvalidReason, UnknownError}
           /\ Len(last'.published) = 1
           /\ refineQ' = refineQ (+) SetToBag({last'.published[1]}) ]_vars

\* the step just taken is an evaluation in which the output of the gate-1
\* judge or of the gate-2 judge did not parse
GateParseFailure ==
  /\ last'.op = "evaluate" /\ last'.gates # <<>>
  /\ \E i \in DOMAIN last'.gates : last'.gates[i].kind = "invalid"

\* C20 as claimed  Evaluator parse failure: when the judge output of a gate
\* does not parse, the Evaluator calls handle_failure with the job's depth,
\* which publishes a retry RefineJob when the depth is below 2 and raises the
\* terminal alert otherwise, and the pointer is not changed.
C20_EvaluatorParseFailure ==
  [][ GateParseFailure =>
        LET depth == DepthOf(last'.job)
        IN /\ pointers' = pointers
           /\ depth < 2 =>
                /\ Len(last'.published) = 1
                /\ last'.published[1].refinement_depth = depth + 1
                /\ refineQ' = refineQ (+) SetToBag({last'.published[1]})
           /\ depth >= 2 =>
                /\ Len(last'.alerts) = 1
                /\ last'.alerts[1].kind = "terminal" ]_vars

\* the reason handle_failure received in the step just taken
HandledReason ==
  IF last'.published # <<>> THEN last'.published[1].failure_reason
  ELSE last'.alerts[1].evaluator_reason

\* C21  Gate order: run_evaluation calls the gate-2 judge only after the
\* gate-1 judge returned a verdict that does not fail; when gate 1 fails
\* gate 2 is not called, the pointer is as it was and handle_failure gets a
\* reason prefixed "Performance Check Failed: "; when gate 2 fails the pointer
\* is as it was and the reason is prefixed "Compliance Check Failed: ".
C21_GateOrder ==
  [][ (last'.op = "evaluate" /\ last'.gates # <<>>) =>
        LET calls == last'.gates
        IN /\ Len(calls) = 2 => calls[1].kind = "object" /\ calls[1].verdict # "FAIL"
           /\ calls[1].verdict = "FAIL" =>
                /\ Len(calls) = 1
                /\ pointers' = pointers /\ promoting' = promoting
                /\ last'.outcome = "rejected"
                /\ HandledReason[1] = "Performance Check Failed: "
           /\ (Len(calls) = 2 /\ calls[2].verdict = "FAIL") =>
                /\ pointers' = pointers /\ promoting' = promoting
                /\ last'.outcome = "rejected"
                /\ HandledReason[1] = "Compliance Check Failed: " ]_vars

\* gate 1 failed, gate 2 was not called and the retry carries gate 1's prefix
C21_Witness ==
  /\ last.op = "evaluate" /\ last.outcome = "rejected"
  /\ Len(last.gates) = 1 /\ last.gates[1].verdict = "FAIL"
  /\ Len(last.published) = 1 /\ last.published[1].failure_reason[1] = PerfPrefix

\* the documents that the step just taken flagged ACTIVE
NewlyActive ==
  { id \in DOMAIN agents' :
      /\ agents'[id].deployment_state = "ACTIVE"
      /\ id \in DOMAIN agents => agents[id].deployment_state # "ACTIVE" }

\* C22  Promotion order: the Evaluator writes the pointer (active id,
\* current_version and reason in one update) before it flags the candidate
\* ACTIVE, so a document becomes ACTIVE only by the flag write of an
\* evaluation whose pointer write is done; and the Gateway request served
\* next after a pointer write, also before the flag write, resolves to the
\* candidate.
C22_PromotionOrder ==
  [][ /\ (last'.op = "evaluate" /\ last'.outcome = "pointer_written") =>
           LET job == last'.job
           IN /\ pointers'[job.original_agent_id] =
                   [ active_agent_doc_ref |-> job.target_agent_id,
                     current_version |-> agents[job.target_agent_id].version,
                     reason |-> <<"Auto-fixed: ", job.trigger_reason>> ]
              /\ agents' = agents
              /\ job \in promoting'
      /\ \A id \in NewlyActive :
           /\ last'.op = "evaluate" /\ last'.outcome = "promoted"
           /\ last'.job.target_agent_id = id
           /\ last'.job \in promoting
      /\ (last.op = "evaluate" /\ last.outcome = "pointer_written" /\ ChatServed) =>
           LET history == chats'[last'.job.chat_id].history
           IN /\ pointers[last'.job.agent_id].active_agent_doc_ref = last.job.target_agent_id
              /\ history[Len(history)].content = BotText(agents[last.job.target_agent_id])
              /\ history[Len(history)].content = last.job.version ]_vars

\* a request was served between the pointer write and the flag write of a
\* promotion and was answered by the candidate
C22_Witness ==
  /\ last.op = "chat" /\ last.outcome = "ok"
  /\ promoting # {}
  /\ \E job \in promoting :
       /\ pointers[Family].active_agent_doc_ref = job.target_agent_id
       /\ agents[job.target_agent_id].deployment_state = "TEST_CANDIDATE"
       /\ chats["c1"].history[Len(chats["c1"].history)].content = job.version

\* C23  Retry hand-off: a gate failure at depth d < 2 publishes exactly one
\* RefineJob, with refinement_depth d + 1, the Evaluator's own reason (prefix
\* and the failing gate's reason, not the audit reason) and the rejected
\* candidate as agent_id; a refinement of a retry clones the document that
\* agent_id names, one version up.
C23_RetryHandOff ==
  [][ /\ (last'.op = "evaluate" /\ last'.outcome = "rejected"
           /\ DepthOf(last'.job) < EvaluatorDepthLimit) =>
           LET job   == last'.job
               calls == last'.gates
           IN /\ Len(last'.published) = 1
              /\ last'.alerts = <<>>
              /\ refineQ' = refineQ (+) SetToBag({last'.published[1]})
              /\ last'.published[1].refinement_depth = DepthOf(job) + 1
              /\ last'.published[1].chat_id = job.chat_id
              /\ last'.published[1].agent_id = job.target_agent_id
              /\ last'.published[1].failure_reason[1] \in {PerfPrefix, CompPrefix}
              /\ last'.published[1].failure_reason[2] = calls[Len(calls)].reason
              /\ last'.published[1].failure_reason # OriginalAuditReason(chats[job.chat_id])
      /\ (last'.op = "refine" /\ last'.outcome = "candidate"
           /\ last'.job.refinement_depth # Absent) =>
           LET job    == last'.job
               parent == agents[job.agent_id]
               made   == last'.published[1].target_agent_id
           IN /\ made = VersionedId(BaseOf(job.agent_id), parent.version + 1)
              /\ agents'[made].version = parent.version + 1
              /\ \A k \in DOMAIN parent :
                   k \notin {"version", "agent_id", "deployment_state", "prompt"} =>
                     agents'[made][k] = parent[k]
              /\ \A k \in DOMAIN parent.prompt :
                   agents'[made].prompt[k] # parent.prompt[k] => k \in MutableKeys ]_vars

\* a retry published after a compliance failure at depth 0 was refined from
\* the rejected candidate
C23_Witness ==
  /\ last.op = "refine" /\ last.outcome = "candidate"
  /\ last.job.refinement_depth = 1
  /\ last.job.failure_reason[1] = CompPrefix
  /\ last.job.agent_id # SeedId
  /\ last.published[1].target_agent_id =
       VersionedId(Family, agents[last.job.agent_id].version + 1)

\* the verdict the audit step just taken recorded in the chat
RecordedVerdict == chats'[last'.job.chat_id].audit_result[1].verdict

\* C24  Auditor outcome: an audit that records the verdict FAIL publishes
\* exactly one RefineJob, which the Refiner handles as refinement_depth 0
\* (it passes the depth guard and its EvaluateJob carries depth 0); an audit
\* that records PASS publishes nothing.
C24_AuditorOutcome ==
  [][ /\ (last'.op = "audit" /\ last'.outcome = "stored" /\ RecordedVerdict = "FAIL") =>
           /\ Len(last'.published) = 1
           /\ refineQ' = refineQ (+) SetToBag({last'.published[1]})
           /\ evalQ' = evalQ
           /\ last'.published[1].chat_id = last'.job.chat_id
           /\ DepthOf(last'.published[1]) = 0
           /\ ~RefinerGuard(DepthOf(last'.published[1]))
      /\ (last'.op = "audit" /\ last'.outcome = "stored" /\ RecordedVerdict = "PASS") =>
           /\ last'.published = <<>>
           /\ refineQ' = refineQ /\ evalQ' = evalQ
      /\ (last'.op = "refine" /\ last'.job.refinement_depth = Absent) =>
           /\ last'.outcome # "loop_detected"
           /\ last'.outcome = "candidate" => last'.published[1].refinement_depth = 0 ]_vars

\* the Refiner made a candidate from the Auditor's RefineJob and handed it
\* on at depth 0
C24_Witness ==
  /\ last.op = "refine" /\ last.outcome = "candidate"
  /\ last.job.refinement_depth = Absent
  /\ last.job.failure_reason = chats[last.job.chat_id].audit_result[1].reason
  /\ chats[last.job.chat_id].audit_result[1].verdict = "FAIL"
  /\ last.published[1].refinement_depth = 0

\* C25  Audit result shape: each chat holds at most one audit_result, an
\* audit replaces it by its own result, and the verdict it holds is PASS or
\* FAIL whatever the judge returned.
C25_AuditResultShape ==
  [][ \A c \in Chats :
        LET result == chats'[c].audit_result
        IN /\ Len(result) <= 1
           /\ (last'.op = "audit" /\ last'.outcome = "stored" /\ last'.job.chat_id = c) =>
                result = <<ParseAudit(last'.gates[1])>>
           /\ result # <<>> => result[1].verdict \in {"PASS", "FAIL"} ]_vars

\* the rewrite is not a JSON object whose keys are mutable prompt fields
NotMutableObject(out) ==
  out.kind # "object" \/ ~(DOMAIN out.fields \subseteq MutableKeys)

\* C26  Refiner parse failure: when the rewrite is not a JSON object of
\* mutable fields, refine_agent persists no candidate and publishes no
\* EvaluateJob; agents and pointers are unchanged.
C26_RefinerParseFailure ==
  [][ (last'.op = "refine" /\ last'.gates # <<>> /\ NotMutableObject(last'.gates[1])) =>
        /\ agents' = agents /\ pointers' = pointers
        /\ last'.published = <<>>
        /\ evalQ' = evalQ ]_vars

\* the request just handled reached the publish of its AuditJob and the
\* publish raised
PublishFailed ==
  /\ last'.op = "chat"
  /\ ~RequestFails(last'.job.agent_id, last'.job.generated)
  /\ should_trigger_audit(chats'[last'.job.chat_id])
  /\ ~last'.job.publishes

\* C27  Best-effort audit publish: a request whose AuditJob publish fails
\* still returns its reply (the text generated under the active
\* configuration and that configuration's version), and the (user, model)
\* pair of the turn is appended to the chat's history; no AuditJob is
\* enqueued and nothing else changes.
C27_BestEffortPublish ==
  [][ PublishFailed =>
        LET chat_id == last'.job.chat_id
            config  == get_current_agent_config(last'.job.agent_id)
            history == chats'[chat_id].history
            n       == Len(history)
        IN /\ last'.outcome = "ok"
           /\ last'.response = [response |-> BotText(config), agent_version |-> config.version]
           /\ n = Len(chats[chat_id].history) + 2
           /\ SubSeq(history, 1, n - 2) = chats[chat_id].history
           /\ history[n - 1].role = "user" /\ history[n - 1].content = UserMessage(turns')
           /\ history[n].role = "model" /\ history[n].content = last'.response.response
           /\ auditQ' = auditQ /\ last'.published = <<>>
           /\ UNCHANGED <<agents, pointers, refineQ, evalQ, promoting>> ]_vars

\* the second turn of a chat was answered and saved although the publish of
\* its AuditJob failed
C27_Witness ==
  /\ last.op = "chat" /\ last.outcome = "ok"
  /\ ~last.job.publishes
  /\ should_trigger_audit(chats["c1"])
  /\ last.response.response # Absent
  /\ Len(chats["c1"].history) = 4
  /\ chats["c1"].history[4].content = last.response.response
  /\ \A job \in BagToSet(auditQ) : job.user_input # chats["c1"].history[3].content

\* the step just taken is a handler run that returned to the wrapper, or a
\* delivery of a message that is not a job
Delivered == last'.settled # NoSettlement \/ last'.op = "deliver"

\* C28  Bus acknowledgement: for every delivered message the wrapper does
\* exactly one of ack and nack: ack if and only if the payload decoded and
\* the handler returned normally, nack if decoding or the handler raised.
\* An acked job has left its subscription; a nacked message changes nothing.
C28_BusAck ==
  [][ Delivered =>
        LET decoded  == ~(last'.op = "deliver" /\ last'.outcome = "undecodable")
            returned == last'.op \in WorkerOps
            left(q, p) == BagCardinality(p) = BagCardinality(q) - 1
        IN /\ last'.settled.acks + last'.settled.nacks = 1
           /\ last'.settled.acks = 1 <=> (decoded /\ returned)
           /\ last'.settled.nacks = 1 <=> (~decoded \/ ~returned)
           /\ (last'.op = "audit") => left(auditQ, auditQ')
           /\ (last'.op = "refine") => left(refineQ, refineQ')
           /\ (last'.op = "evaluate" /\ last'.outcome # "promoted") => left(evalQ, evalQ')
           /\ last'.settled.nacks = 1 =>
                UNCHANGED <<agents, pointers, chats, auditQ, refineQ, evalQ, promoting>> ]_vars

\* a message whose JSON is not an object was nacked while jobs were pending
C28_Witness ==
  /\ last.op = "deliver" /\ last.outcome = "nonobject"
  /\ last.settled = [acks |-> 0, nacks |-> 1]
  /\ refineQ # EmptyBag

\* the worker run just taken had a store read, a generation call or a store
\* write that raised
WorkerFailed == last'.op \in WorkerOps /\ last'.outcome \in FailureOutcomes

\* C29  Worker failure stops the pipeline: a run of the Auditor, Refiner or
\* Evaluator in which a store read or write or a generation call fails
\* publishes no job, returns normally so that its message is acked and not
\* delivered again, and leaves the other pending jobs on their topics for
\* the worker to consume.  The flag write of a promotion is the one failure
\* that follows a write of the same run, the pointer update.
C29_WorkerFailure ==
  [][ WorkerFailed =>
        LET left(q, p) == \E job \in BagToSet(q) : p = q (-) SetToBag({job})
        IN /\ last'.published = <<>> /\ last'.alerts = <<>>
           /\ last'.settled = [acks |-> 1, nacks |-> 0]
           /\ IF last'.op = "audit" THEN left(auditQ, auditQ') ELSE auditQ' = auditQ
           /\ IF last'.op = "refine" THEN left(refineQ, refineQ') ELSE refineQ' = refineQ
           /\ IF last'.op # "evaluate" THEN evalQ' = evalQ /\ promoting' = promoting
              ELSE IF last'.outcome = "store_write_failed" /\ last'.gates = <<>>
                THEN evalQ' = evalQ /\ promoting' = promoting \ {last'.job}
              ELSE left(evalQ, evalQ') /\ promoting' = promoting
           /\ UNCHANGED <<agents, pointers, chats>> ]_vars

\* the Refiner's write of a candidate failed while another RefineJob was
\* pending, and nothing reached the Evaluator
C29_Witness ==
  /\ last.op = "refine" /\ last.outcome = "store_write_failed"
  /\ refineQ # EmptyBag
  /\ evalQ = EmptyBag
  /\ DOMAIN agents = {SeedId}

\* C30  Refinement parent: the Refiner derives the candidate from the
\* configuration that produced the failure: for the Auditor's depth-0 job
\* the family's active config, the pointer's target that answered the turn,
\* also after earlier promotions; for a retry job the rejected candidate.
C30_RefinementParent ==
  [][ (last'.op = "refine" /\ last'.outcome = "candidate") =>
        LET job    == last'.job
            parent == agents[job.agent_id]
            made   == last'.published[1].target_agent_id
        IN IF job.refinement_depth = Absent
             THEN /\ BotText(parent) = job.bad_response
                  /\ agents'[made].version = job.bad_response + 1
             ELSE /\ job.agent_id # SeedId
                  /\ agents'[made].version = parent.version + 1 ]_vars

\* the Evaluator run just taken reached the replay of gate 1
Replayed == last'.op = "evaluate" /\ last'.gates # <<>>

\* C31  Replay input: the user input an Evaluator run replays against the
\* candidate is the user_input of the AuditJob that started the chain, also
\* when the Gateway appended further turns to the chat in the meantime.
C31_ReplayInput ==
  [][ (Replayed /\ last'.job.chain_input # Absent) =>
        LastUserInput(chats[last'.job.chat_id].history) = last'.job.chain_input ]_vars

\* C32  Pointer frame: a Gateway turn, an Auditor run, a Refiner run and an
\* Evaluator run that fails a gate or aborts leave every field of every
\* VersionPointer as it was; a pointer is written only by a promotion in
\* which both gates returned PASS.
C32_PointerFrame ==
  [][ pointers' # pointers =>
        /\ last'.op = "evaluate" /\ last'.outcome = "pointer_written"
        /\ Len(last'.gates) = 2
        /\ last'.gates[1].verdict = "PASS" /\ last'.gates[2].verdict = "PASS" ]_vars

\* C33  Reset gate: a reset request whose admin key is missing or wrong is
\* rejected and leaves agents, pointers and chats as they were; a reset with
\* the correct key ends with the seed state: one document, version 1 and
\* ACTIVE, a pointer that targets it with current_version 1, and no chat.
C33_ResetGate ==
  [][ last'.op = "reset" =>
        IF last'.job.x_admin_key # "hackathon-secret"
          THEN /\ last'.outcome = "unauthorized"
               /\ UNCHANGED <<agents, pointers, chats>>
          ELSE /\ last'.outcome = "ok"
               /\ Cardinality(DOMAIN agents') = 1
               /\ \A id \in DOMAIN agents' :
                    /\ agents'[id].version = 1
                    /\ agents'[id].deployment_state = "ACTIVE"
                    /\ agents'[id] = SeedDoc
               /\ DOMAIN pointers' = {Family}
               /\ pointers'[Family].active_agent_doc_ref \in DOMAIN agents'
               /\ pointers'[Family].current_version = 1
               /\ \A c \in Chats : ~chats'[c].exists /\ chats'[c].history = <<>>
                                      /\ chats'[c].audit_result = <<>> ]_vars

\* a reset with the key brought a store that held a chat and a candidate,
\* its EvaluateJob still pending, back to the seed state
C33_Witness ==
  /\ last.op = "reset" /\ last.outcome = "ok"
  /\ turns > 0
  /\ agents = (SeedId :> SeedDoc)
  /\ ~chats["c1"].exists
  /\ evalQ # EmptyBag

\* C34  In chains started by the Auditor the Refiner forwards the depth it
\* received and aborts at depth 2 or more, so no EvaluateJob of depth 2 or
\* more is published, run_evaluation never runs at depth 2 and never raises
\* the terminal alert, and a chain out of retries ends in the Refiner's
\* loop-detected abort.
C34_EvaluatorBelowLimit ==
  [][ /\ \A job \in BagToSet(evalQ') : DepthOf(job) < RefinerDepthLimit
      /\ \A job \in BagToSet(refineQ') : DepthOf(job) <= RefinerDepthLimit
      /\ (last'.op = "refine" /\ last'.outcome = "candidate") =>
           /\ last'.published[1].refinement_depth = DepthOf(last'.job)
           /\ DepthOf(last'.job) < RefinerDepthLimit
      /\ last'.op = "evaluate" =>
           /\ DepthOf(last'.job) < EvaluatorDepthLimit
           /\ last'.alerts = <<>>
      /\ (last'.op = "refine" /\ DepthOf(last'.job) >= RefinerDepthLimit) =>
           /\ last'.outcome = "loop_detected"
           /\ last'.published = <<>>
           /\ last'.alerts = <<LoopDetected>>
           /\ UNCHANGED <<agents, pointers, evalQ>> ]_vars

\* the retry of a chain whose two candidates were rejected was aborted by
\* the Refiner as a loop
C34_Witness ==
  /\ last.op = "refine" /\ last.outcome = "loop_detected"
  /\ last.job.refinement_depth = 2
  /\ last.job.made = 2
  /\ last.job.chain_input # Absent

\* C35  The pointer's current_version of a family never decreases: each
\* promotion sets it to a value that is at least the value it replaces,
\* over every interleaving of audits, refinements and promotions.
C35_VersionNeverDecreases ==
  [][ \A family \in DOMAIN pointers :
        pointers'[family].current_version >= pointers[family].current_version ]_vars

\* C36  Pointer coherence: in every reachable state, also while two
\* Evaluators promote different candidates of the family, the pointer's
\* active id resolves to a document and current_version is the version
\* field of that document.
C36_PointerCoherence ==
  \A family \in DOMAIN pointers :
    /\ pointers[family].active_agent_doc_ref \in DOMAIN agents
    /\ pointers[family].current_version =
         agents[pointers[family].active_agent_doc_ref].version

\* two Evaluator runs that promote different candidates are both between
\* their pointer write and their flag write
C36_Witness ==
  /\ \E a, b \in promoting : a.target_agent_id # b.target_agent_id
  /\ pointers[Family].active_agent_doc_ref # SeedId
  /\ pointers[Family].current_version =
       agents[pointers[Family].active_agent_doc_ref].version

\* C37  Only evaluated content is served: the prompt of the document the
\* pointer targets is the seed's or the content that passed both gates in
\* the promotion that made it the target; while the pointer is not written,
\* no step, a Refiner write included, changes the prompt of its target.
C37_EvaluatedContentServed ==
  [][ \A family \in DOMAIN pointers :
        LET target == pointers[family].active_agent_doc_ref
        IN pointers'[family] = pointers[family] =>
             /\ target \in DOMAIN agents'
             /\ agents'[target].prompt = agents[target].prompt ]_vars

\* C38  No suppression without refinement: an Auditor run that stores an
\* audit_result for which should_trigger_audit is false publishes a
\* RefineJob for the chat, whatever verdict string the judge returned.
C38_SuppressionRefines ==
  [][ (/\ last'.op = "audit" /\ last'.outcome = "stored"
       /\ ~should_trigger_audit(chats'[last'.job.chat_id])) =>
        /\ Len(last'.published) = 1
        /\ last'.published[1].chat_id = last'.job.chat_id
        /\ refineQ' = refineQ (+) SetToBag({last'.published[1]}) ]_vars

\* the number of jobs of a chat on a topic
InFlight(topic, chat_id) ==
  BagCardinality([job \in {j \in BagToSet(topic) : j.chat_id = chat_id} |-> topic[job]])

\* the refinement chains of a chat: its RefineJobs and EvaluateJobs pending,
\* and its promotions between their two writes
Chains(chat_id) ==
  InFlight(refineQ, chat_id) + InFlight(evalQ, chat_id)
    + Cardinality({job \in promoting : job.chat_id = chat_id})

\* C39  One refinement chain per chat: in every reachable state at most one
\* RefineJob or EvaluateJob of a chat is in flight or being processed, also
\* when several turns of the chat are submitted before the first verdict is
\* stored.
C39_OneChainPerChat == \A chat_id \in Chats : Chains(chat_id) <= 1
====
